---- MODULE Spec2Model ----
(***************************************************************************)
(* MultiChoiceVoting: the contract's storage, its four transactions        *)
(* (createPoll, vote, requestFinalization, decryptionCallback) and the     *)
(* passing of block time.  An encrypted euint32 is represented by the      *)
(* plaintext it encrypts; the contract itself never reads that plaintext.  *)
(* The counts stay far below 2^32, so FHE.add never wraps here.            *)
(* lastCall is the receipt of the latest transaction, ballots the option   *)
(* index each accepted ballot encrypted, requested and counterRequest the  *)
(* decryption oracle's record of the requests filed with it, acl the       *)
(* accounts FHE.allow has granted the current count handles to.            *)
(***************************************************************************)
EXTENDS Integers, Sequences, FiniteSets, TLC

\* ------------------------------------------------------------------ bounds
\* Block timestamps run over 0 .. MaxTime; ballots encrypt 0 .. MaxChoice.
MaxTime == 2
MaxChoice == 2

\* --------------------------------------------------------- program constants
MinOptions == 2
MaxOptions == 16

\* ------------------------------------------------------------------- inputs
Accounts == {"alice", "bob"}
Oracle == "oracle"
\* Who sends decryptionCallback: the decryption oracle, or an ordinary account.
Callers == {Oracle, "alice"}
\* The poll ids that calls are made with, and the ids createPoll may allocate.
\* CreatePollCall and CreatePollAnyCall create a poll only while the next id
\* is one of them too, so there the largest is an id no poll ever gets: calls
\* that name it name a poll that does not exist.
PollIds == {0, 1}
\* Request ids: the ones the oracle hands out and one it never issued.
RequestIds == PollIds
Times == 0 .. MaxTime
Choices == 0 .. MaxChoice
Titles == {"", "Q"}
\* Option counts on both sides of each bound of createPoll.
OptionCounts == {1, 2, 16, 17}
NoBallot == -1
NoAddress == "0x0"

Labels(n) == [i \in 1 .. n |-> i]
OptionInputs == {Labels(n) : n \in OptionCounts}
Zeros(n) == [i \in 1 .. n |-> 0]

OK == "ok"

VARIABLES now, pollCount, polls, hasVoted, requestToPoll,
          counterRequest, requested, acl, ballots, lastCall, hook, provider

vars == <<now, pollCount, polls, hasVoted, requestToPoll,
          counterRequest, requested, acl, ballots, lastCall, hook, provider>>

\* The state of the browser: it is no part of the chain's, and no transaction
\* of another account changes it.
frontend == <<hook, provider>>

store == <<pollCount, polls, hasVoted, requestToPoll>>

\* A storage slot of the _polls mapping that was never written.
EmptyPoll ==
    [title |-> "", options |-> <<>>, startTime |-> 0, endTime |-> 0,
     creator |-> NoAddress, finalized |-> FALSE, decryptionPending |-> FALSE,
     requestId |-> 0, encryptedCounts |-> <<>>, decryptedCounts |-> <<>>,
     totalVoters |-> 0]

pollExists(pollId) == pollId < pollCount

\* The outcome of the last transaction: the function called and how it ended.
Receipt(op, err) == [op |-> op, err |-> err]

\* The wallet as useAccount reports it, and the chains it may be on: the
\* local mock chain, Sepolia and one the frontend does not support.
Chains == {31337, 11155111, 1}
Disconnected == [isConnected |-> FALSE, address |-> NoAddress, chain |-> 0]
Wallets ==
    {Disconnected} \cup
    {[isConnected |-> TRUE, address |-> a, chain |-> c] : a \in Accounts, c \in Chains}

\* What an initFhevm run was started for, and so what its instance is for.
InitEnvs == {[address |-> a, chain |-> c] : a \in Accounts, c \in {31337, 11155111}}
NoInstance == [address |-> NoAddress, chain |-> 0]
NoError == "null"

\* FhevmProvider when it is mounted: its three useState values, the wallet,
\* and the initFhevm runs that wait for their SDK (how many for each env).
ProviderMounted ==
    [wallet |-> Disconnected, fhevm |-> NoInstance, isReady |-> FALSE,
     error |-> NoError, pending |-> [e \in InitEnvs |-> 0]]

\* The frontend's requestFinalization before it is called: hook is the
\* position of the one call in progress and the values it holds.
HookIdle ==
    [pc |-> "idle", pollId |-> 0, handles |-> <<>>, allowed |-> {},
     decryptedCounts |-> <<>>, requestId |-> 0]

Init ==
    /\ now = 0
    /\ pollCount = 0
    /\ polls = [p \in PollIds |-> EmptyPoll]
    /\ hasVoted = [p \in PollIds |-> [a \in Accounts |-> FALSE]]
    /\ requestToPoll = [r \in RequestIds |-> 0]
    /\ counterRequest = 0
    /\ requested = [r \in RequestIds |-> <<>>]
    /\ acl = [p \in PollIds |-> {}]
    /\ ballots = [p \in PollIds |-> [a \in Accounts |-> NoBallot]]
    /\ lastCall = Receipt("deploy", OK)
    /\ hook = HookIdle
    /\ provider = ProviderMounted

\* -------------------------------------------------------------- createPoll
CreatePollError_SixteenExcluded(title, options, startTime, endTime) ==
    IF title = "" THEN "Title cannot be empty"
    ELSE IF ~(Len(options) >= MinOptions /\ Len(options) < MaxOptions)
        THEN "Must have 2-16 options"
    ELSE IF ~(endTime > startTime) THEN "End time must be after start time"
    ELSE IF ~(endTime > now) THEN "End time must be in the future"
    ELSE OK

CreatePollError(title, options, startTime, endTime) ==
    IF title = "" THEN "Title cannot be empty"
    ELSE IF ~(Len(options) >= MinOptions /\ Len(options) <= MaxOptions)
        THEN "Must have 2-16 options"
    ELSE IF ~(endTime > startTime) THEN "End time must be after start time"
    ELSE IF ~(endTime > now) THEN "End time must be in the future"
    ELSE OK

NewPoll_SwapsTimes(title, options, startTime, endTime, sender) ==
    [title |-> title, options |-> options, startTime |-> endTime,
     endTime |-> startTime, creator |-> sender, finalized |-> FALSE,
     decryptionPending |-> FALSE, requestId |-> 0,
     encryptedCounts |-> Zeros(Len(options)),
     decryptedCounts |-> Zeros(Len(options)), totalVoters |-> 0]

NewPoll(title, options, startTime, endTime, sender) ==
    [title |-> title, options |-> options, startTime |-> startTime,
     endTime |-> endTime, creator |-> sender, finalized |-> FALSE,
     decryptionPending |-> FALSE, requestId |-> 0,
     encryptedCounts |-> Zeros(Len(options)),
     decryptedCounts |-> Zeros(Len(options)), totalVoters |-> 0]

createPoll_ReusesId(sender, title, options, startTime, endTime) ==
    LET err == CreatePollError(title, options, startTime, endTime) IN
    /\ err = OK => pollCount \in PollIds
    /\ lastCall' = Receipt("createPoll", err)
    /\ IF err = OK
       THEN /\ pollCount' = pollCount + 1
            /\ polls' = [polls EXCEPT ![0] =
                            NewPoll(title, options, startTime, endTime, sender)]
       ELSE UNCHANGED <<pollCount, polls>>
    /\ UNCHANGED <<now, hasVoted, requestToPoll, counterRequest, requested, acl, ballots>>

createPoll(sender, title, options, startTime, endTime) ==
    LET err == CreatePollError(title, options, startTime, endTime) IN
    /\ err = OK => pollCount \in PollIds
    /\ lastCall' = Receipt("createPoll", err)
    /\ IF err = OK
       THEN /\ pollCount' = pollCount + 1
            /\ polls' = [polls EXCEPT ![pollCount] =
                            NewPoll(title, options, startTime, endTime, sender)]
       ELSE UNCHANGED <<pollCount, polls>>
    /\ UNCHANGED <<now, hasVoted, requestToPoll, counterRequest, requested, acl, ballots>>

\* -------------------------------------------------------------------- vote
VoteError_NoDoubleVoteCheck(pollId, sender, proofOk) ==
    IF ~pollExists(pollId) THEN "Poll does not exist"
    ELSE IF ~(now >= polls[pollId].startTime) THEN "Voting has not started"
    ELSE IF ~(now <= polls[pollId].endTime) THEN "Voting has ended"
    ELSE IF polls[pollId].finalized THEN "Poll is finalized"
    ELSE IF ~proofOk THEN "Invalid proof"
    ELSE OK

VoteError_EndExclusive(pollId, sender, proofOk) ==
    IF ~pollExists(pollId) THEN "Poll does not exist"
    ELSE IF ~(now >= polls[pollId].startTime) THEN "Voting has not started"
    ELSE IF ~(now < polls[pollId].endTime) THEN "Voting has ended"
    ELSE IF polls[pollId].finalized THEN "Poll is finalized"
    ELSE IF hasVoted[pollId][sender] THEN "Already voted"
    ELSE IF ~proofOk THEN "Invalid proof"
    ELSE OK

VoteError_NoProofCheck(pollId, sender, proofOk) ==
    IF ~pollExists(pollId) THEN "Poll does not exist"
    ELSE IF ~(now >= polls[pollId].startTime) THEN "Voting has not started"
    ELSE IF ~(now <= polls[pollId].endTime) THEN "Voting has ended"
    ELSE IF polls[pollId].finalized THEN "Poll is finalized"
    ELSE IF hasVoted[pollId][sender] THEN "Already voted"
    ELSE OK

VoteError_VotedBeforeEnded(pollId, sender, proofOk) ==
    IF ~pollExists(pollId) THEN "Poll does not exist"
    ELSE IF ~(now >= polls[pollId].startTime) THEN "Voting has not started"
    ELSE IF hasVoted[pollId][sender] THEN "Already voted"
    ELSE IF ~(now <= polls[pollId].endTime) THEN "Voting has ended"
    ELSE IF polls[pollId].finalized THEN "Poll is finalized"
    ELSE IF ~proofOk THEN "Invalid proof"
    ELSE OK

VoteError(pollId, sender, proofOk) ==
    IF ~pollExists(pollId) THEN "Poll does not exist"
    ELSE IF ~(now >= polls[pollId].startTime) THEN "Voting has not started"
    ELSE IF ~(now <= polls[pollId].endTime) THEN "Voting has ended"
    ELSE IF polls[pollId].finalized THEN "Poll is finalized"
    ELSE IF hasVoted[pollId][sender] THEN "Already voted"
    ELSE IF ~proofOk THEN "Invalid proof"
    ELSE OK

\* FHE.eq / FHE.select / FHE.add on the plaintexts the ciphertexts hold.
FheEq(a, b) == a = b
FheSelect(c, x, y) == IF c THEN x ELSE y
FheAdd(a, b) == a + b

CountVote_OffByOne(counts, voteIndex) ==
    [i \in 1 .. Len(counts) |->
        FheAdd(counts[i], FheSelect(FheEq(voteIndex, i), 1, 0))]

CountVote_LastVoteWins(counts, voteIndex) ==
    [i \in 1 .. Len(counts) |-> FheSelect(FheEq(voteIndex, i - 1), 1, 0)]

CountVote_WrapsAround(counts, voteIndex) ==
    [i \in 1 .. Len(counts) |->
        FheAdd(counts[i], FheSelect(FheEq(voteIndex % Len(counts), i - 1), 1, 0))]

CountVote_ClampsToLast(counts, voteIndex) ==
    [i \in 1 .. Len(counts) |->
        FheAdd(counts[i],
               FheSelect(FheEq(IF voteIndex < Len(counts) THEN voteIndex
                               ELSE Len(counts) - 1, i - 1), 1, 0))]

CountVote(counts, voteIndex) ==
    [i \in 1 .. Len(counts) |->
        FheAdd(counts[i], FheSelect(FheEq(voteIndex, i - 1), 1, 0))]

TallyVote_NoVoterCount(poll, voteIndex) ==
    [poll EXCEPT !.encryptedCounts = CountVote(@, voteIndex)]

TallyVote_CountsVotersInRange(poll, voteIndex) ==
    [poll EXCEPT !.encryptedCounts = CountVote(@, voteIndex),
                 !.totalVoters = IF voteIndex < Len(poll.options) THEN @ + 1 ELSE @]

TallyVote_CountsTwice(poll, voteIndex) ==
    [poll EXCEPT !.encryptedCounts = CountVote(@, voteIndex),
                 !.totalVoters = @ + 2]

\* The poll after one accepted ballot: every count updated, one more voter.
TallyVote(poll, voteIndex) ==
    [poll EXCEPT !.encryptedCounts = CountVote(@, voteIndex),
                 !.totalVoters = @ + 1]

\* What a voter may submit: <<the option index encrypted, whether the input
\* proof verifies>>.
BallotInputs == {<<c, TRUE>> : c \in Choices} \cup {<<0, FALSE>>}

vote_MarksEveryVoter(sender, pollId, voteIndex, proofOk) ==
    LET err == VoteError(pollId, sender, proofOk) IN
    /\ lastCall' = Receipt("vote", err)
    /\ IF err = OK
       THEN /\ polls' = [polls EXCEPT ![pollId] = TallyVote(@, voteIndex)]
            /\ acl' = [acl EXCEPT ![pollId] = {sender, polls[pollId].creator}]
            /\ hasVoted' = [hasVoted EXCEPT ![pollId] = [a \in Accounts |-> TRUE]]
            /\ ballots' = [ballots EXCEPT ![pollId][sender] = voteIndex]
       ELSE UNCHANGED <<polls, hasVoted, acl, ballots>>
    /\ UNCHANGED <<now, pollCount, requestToPoll, counterRequest, requested>>

vote_LeavesHasVoted(sender, pollId, voteIndex, proofOk) ==
    LET err == VoteError(pollId, sender, proofOk) IN
    /\ lastCall' = Receipt("vote", err)
    /\ IF err = OK
       THEN /\ polls' = [polls EXCEPT ![pollId] = TallyVote(@, voteIndex)]
            /\ acl' = [acl EXCEPT ![pollId] = {sender, polls[pollId].creator}]
            /\ ballots' = [ballots EXCEPT ![pollId][sender] = voteIndex]
            /\ UNCHANGED hasVoted
       ELSE UNCHANGED <<polls, hasVoted, acl, ballots>>
    /\ UNCHANGED <<now, pollCount, requestToPoll, counterRequest, requested>>

vote(sender, pollId, voteIndex, proofOk) ==
    LET err == VoteError(pollId, sender, proofOk) IN
    /\ lastCall' = Receipt("vote", err)
    /\ IF err = OK
       THEN /\ polls' = [polls EXCEPT ![pollId] = TallyVote(@, voteIndex)]
            /\ acl' = [acl EXCEPT ![pollId] = {sender, polls[pollId].creator}]
            /\ hasVoted' = [hasVoted EXCEPT ![pollId][sender] = TRUE]
            /\ ballots' = [ballots EXCEPT ![pollId][sender] = voteIndex]
       ELSE UNCHANGED <<polls, hasVoted, acl, ballots>>
    /\ UNCHANGED <<now, pollCount, requestToPoll, counterRequest, requested>>

\* ------------------------------------------------------- requestFinalization
RequestFinalizationError_AfterEndOnly(pollId) ==
    IF ~pollExists(pollId) THEN "Poll does not exist"
    ELSE IF ~(now > polls[pollId].endTime) THEN "Voting has not ended"
    ELSE IF polls[pollId].finalized THEN "Poll already finalized"
    ELSE IF polls[pollId].decryptionPending THEN "Decryption already pending"
    ELSE OK

RequestFinalizationError_NoPendingCheck(pollId) ==
    IF ~pollExists(pollId) THEN "Poll does not exist"
    ELSE IF polls[pollId].finalized THEN "Poll already finalized"
    ELSE OK

RequestFinalizationError(pollId) ==
    IF ~pollExists(pollId) THEN "Poll does not exist"
    ELSE IF polls[pollId].finalized THEN "Poll already finalized"
    ELSE IF polls[pollId].decryptionPending THEN "Decryption already pending"
    ELSE OK

PendingPoll_ForgetsRequestId(poll, requestId) ==
    [poll EXCEPT !.decryptionPending = TRUE]

PendingPoll(poll, requestId) ==
    [poll EXCEPT !.decryptionPending = TRUE, !.requestId = requestId]

requestFinalization(sender, pollId) ==
    LET err == RequestFinalizationError(pollId)
        requestId == counterRequest IN
    /\ lastCall' = Receipt("requestFinalization", err)
    /\ IF err = OK
       THEN /\ requested' = [requested EXCEPT ![requestId] =
                                polls[pollId].encryptedCounts]
            /\ counterRequest' = counterRequest + 1
            /\ polls' = [polls EXCEPT ![pollId] = PendingPoll(@, requestId)]
            /\ requestToPoll' = [requestToPoll EXCEPT ![requestId] = pollId]
       ELSE UNCHANGED <<polls, requestToPoll, counterRequest, requested>>
    /\ UNCHANGED <<now, pollCount, hasVoted, acl, ballots>>

\* -------------------------------------------------------- decryptionCallback
CallbackError_NoPendingCheck(requestId, cleartexts) ==
    LET pollId == requestToPoll[requestId] IN
    IF ~(pollId < pollCount) THEN "Invalid request ID"
    ELSE IF ~(Len(cleartexts) = Len(polls[pollId].encryptedCounts))
        THEN "Result length mismatch"
    ELSE OK

CallbackError_NoRequestIdMatch(requestId, cleartexts) ==
    LET pollId == requestToPoll[requestId] IN
    IF ~(pollId < pollCount) THEN "Invalid request ID"
    ELSE IF ~polls[pollId].decryptionPending THEN "No pending decryption"
    ELSE IF ~(Len(cleartexts) = Len(polls[pollId].encryptedCounts))
        THEN "Result length mismatch"
    ELSE OK

CallbackError_NoLengthCheck(requestId, cleartexts) ==
    LET pollId == requestToPoll[requestId] IN
    IF ~(pollId < pollCount) THEN "Invalid request ID"
    ELSE IF ~(polls[pollId].decryptionPending /\ polls[pollId].requestId = requestId)
        THEN "No pending decryption"
    ELSE OK

CallbackError(requestId, cleartexts) ==
    LET pollId == requestToPoll[requestId] IN
    IF ~(pollId < pollCount) THEN "Invalid request ID"
    ELSE IF ~(polls[pollId].decryptionPending /\ polls[pollId].requestId = requestId)
        THEN "No pending decryption"
    ELSE IF ~(Len(cleartexts) = Len(polls[pollId].encryptedCounts))
        THEN "Result length mismatch"
    ELSE OK

\* What the decryption oracle answers to a request: the plaintexts of the
\* handles that the request named.
Decryption(requestId) == requested[requestId]

\* A vector of the right length that differs from the oracle's answer.
Forged(requestId) ==
    LET d == Decryption(requestId)
        n == Len(polls[requestToPoll[requestId]].encryptedCounts) IN
    [i \in 1 .. n |-> IF i = 1 /\ i <= Len(d) THEN d[i] + 1 ELSE 1]

\* What a caller may submit: <<cleartexts, signed>>.  The KMS signs nothing
\* but the oracle's answer to a request that was issued.
CallbackInputs(requestId) ==
    LET n == Len(polls[requestToPoll[requestId]].encryptedCounts) IN
    {<<Decryption(requestId), requestId < counterRequest>>,
     <<Decryption(requestId), FALSE>>,
     <<Forged(requestId), FALSE>>,
     <<Zeros(n + 1), FALSE>>,
     <<Zeros(n - 1), FALSE>>}

FinalizedPoll_DropsResults(poll, results) ==
    [poll EXCEPT !.finalized = TRUE, !.decryptionPending = FALSE]

FinalizedPoll_KeepsPending(poll, results) ==
    [poll EXCEPT !.decryptedCounts = results, !.finalized = TRUE]

FinalizedPoll_ClearsCounts(poll, results) ==
    [poll EXCEPT !.decryptedCounts = results,
                 !.encryptedCounts = Zeros(Len(@)),
                 !.finalized = TRUE,
                 !.decryptionPending = FALSE]

FinalizedPoll(poll, results) ==
    [poll EXCEPT !.decryptedCounts = results,
                 !.finalized = TRUE,
                 !.decryptionPending = FALSE]

decryptionCallback_FinalizesBeforeLengthCheck(sender, requestId, cleartexts, signed) ==
    LET err == CallbackError(requestId, cleartexts)
        pollId == requestToPoll[requestId] IN
    /\ lastCall' = Receipt("decryptionCallback", err)
    /\ IF err = OK
       THEN polls' = [polls EXCEPT ![pollId] = FinalizedPoll(@, cleartexts)]
       ELSE IF err = "Result length mismatch"
       THEN polls' = [polls EXCEPT ![pollId].finalized = TRUE,
                                   ![pollId].decryptionPending = FALSE]
       ELSE UNCHANGED polls
    /\ UNCHANGED <<now, pollCount, hasVoted, requestToPoll, counterRequest,
                   requested, acl, ballots>>

decryptionCallback_FinalizesAllPending(sender, requestId, cleartexts, signed) ==
    LET err == CallbackError(requestId, cleartexts) IN
    /\ lastCall' = Receipt("decryptionCallback", err)
    /\ IF err = OK
       THEN polls' = [p \in PollIds |->
                        IF polls[p].decryptionPending
                        THEN FinalizedPoll(polls[p], cleartexts)
                        ELSE polls[p]]
       ELSE UNCHANGED polls
    /\ UNCHANGED <<now, pollCount, hasVoted, requestToPoll, counterRequest,
                   requested, acl, ballots>>

decryptionCallback(sender, requestId, cleartexts, signed) ==
    LET err == CallbackError(requestId, cleartexts)
        pollId == requestToPoll[requestId] IN
    /\ lastCall' = Receipt("decryptionCallback", err)
    /\ IF err = OK
       THEN polls' = [polls EXCEPT ![pollId] = FinalizedPoll(@, cleartexts)]
       ELSE UNCHANGED polls
    /\ UNCHANGED <<now, pollCount, hasVoted, requestToPoll, counterRequest,
                   requested, acl, ballots>>

\* ------------------------------------------------------------- getPollCount
getPollCount == pollCount

\* -------------------------------------------------------------- getPollInfo
getPollInfo(pollId) ==
    IF ~pollExists(pollId) THEN [err |-> "Poll does not exist", ret |-> <<>>]
    ELSE [err |-> OK,
          ret |-> [title |-> polls[pollId].title,
                   options |-> polls[pollId].options,
                   startTime |-> polls[pollId].startTime,
                   endTime |-> polls[pollId].endTime,
                   creator |-> polls[pollId].creator,
                   finalized |-> polls[pollId].finalized,
                   decryptionPending |-> polls[pollId].decryptionPending,
                   totalVoters |-> polls[pollId].totalVoters]]

\* ---------------------------------------------------------------- getResults
\* A view: it is evaluated against the storage of the current state and
\* writes nothing.  err is the revert reason, ret the array returned.
getResults_NoFinalizedCheck(pollId) ==
    IF ~pollExists(pollId) THEN [err |-> "Poll does not exist", ret |-> <<>>]
    ELSE [err |-> OK, ret |-> polls[pollId].decryptedCounts]

getResults(pollId) ==
    IF ~pollExists(pollId) THEN [err |-> "Poll does not exist", ret |-> <<>>]
    ELSE IF ~polls[pollId].finalized
        THEN [err |-> "Poll not finalized", ret |-> <<>>]
    ELSE [err |-> OK, ret |-> polls[pollId].decryptedCounts]

\* -------------------------------------------------------- getEncryptedCounts
\* One handle per accumulator; a handle is modelled by the value it holds.
getEncryptedCounts(pollId) ==
    IF ~pollExists(pollId) THEN [err |-> "Poll does not exist", ret |-> <<>>]
    ELSE [err |-> OK,
          ret |-> [i \in 1 .. Len(polls[pollId].encryptedCounts) |->
                      polls[pollId].encryptedCounts[i]]]

\* -------------------------------------------------------------- hasUserVoted
hasUserVoted_NoExistsCheck(pollId, user) ==
    [err |-> OK, ret |-> hasVoted[pollId][user]]

hasUserVoted(pollId, user) ==
    IF ~pollExists(pollId) THEN [err |-> "Poll does not exist", ret |-> FALSE]
    ELSE [err |-> OK, ret |-> hasVoted[pollId][user]]

\* ------------------------------------------------------------ getTotalVoters
getTotalVoters(pollId) ==
    IF ~pollExists(pollId) THEN [err |-> "Poll does not exist", ret |-> 0]
    ELSE [err |-> OK, ret |-> polls[pollId].totalVoters]

\* ---------------------------------------------------------------- block time
Tick ==
    /\ now < MaxTime
    /\ now' = now + 1
    /\ UNCHANGED <<pollCount, polls, hasVoted, requestToPoll, counterRequest,
                   requested, acl, ballots, lastCall, hook, provider>>

\* The transactions, each with every sender and argument of the input sets.
CreatePollCall ==
    /\ (pollCount + 1) \in PollIds
    /\ \E s \in Accounts, t \in Titles, o \in OptionInputs, st \in Times, en \in Times :
          createPoll(s, t, o, st, en)
    /\ UNCHANGED frontend

VoteCall ==
    /\ \E s \in Accounts, p \in PollIds, b \in BallotInputs : vote(s, p, b[1], b[2])
    /\ UNCHANGED frontend

RequestFinalizationCall ==
    /\ \E s \in Accounts, p \in PollIds : requestFinalization(s, p)
    /\ UNCHANGED frontend

DecryptionCallbackCall ==
    /\ \E s \in Callers, r \in RequestIds :
          \E in \in CallbackInputs(r) : decryptionCallback(s, r, in[1], in[2])
    /\ UNCHANGED frontend

Next ==
    \/ CreatePollCall
    \/ VoteCall
    \/ RequestFinalizationCall
    \/ DecryptionCallbackCall
    \/ Tick

Spec == Init /\ [][Next]_vars

\* The runs up to the first decryption callback.
NextBeforeCallback ==
    \/ CreatePollCall
    \/ VoteCall
    \/ RequestFinalizationCall
    \/ Tick

SpecBeforeCallback == Init /\ [][NextBeforeCallback]_vars

\* createPoll called in every state, also when polls exist and are voted on;
\* a call that would allocate an id outside PollIds is left out.
CreatePollAnyCall ==
    /\ \E s \in Accounts, t \in Titles, o \in OptionInputs, st \in Times, en \in Times :
          /\ CreatePollError(t, o, st, en) = OK => (pollCount + 1) \in PollIds
          /\ createPoll(s, t, o, st, en)
    /\ UNCHANGED frontend

NextCreateAnytime ==
    \/ CreatePollAnyCall
    \/ VoteCall
    \/ Tick

SpecCreateAnytime == Init /\ [][NextCreateAnytime]_vars

\* Two polls side by side: every id of PollIds is allocated.  The calls take
\* fewer arguments here: polls have 2 or 16 options and are open to votes from
\* creation on, one voter casts a valid ballot for the second option, and the
\* callback carries the oracle's answer or a forged one.
CreatePollLeanCall ==
    /\ \E s \in Accounts, t \in Titles, n \in {MinOptions, MaxOptions} :
          createPoll(s, t, Labels(n), 0, MaxTime)
    /\ UNCHANGED frontend

VoteLeanCall ==
    /\ \E p \in PollIds : vote("bob", p, 1, TRUE)
    /\ UNCHANGED frontend

CallbackLeanCall ==
    /\ \E r \in RequestIds :
          \E in \in {<<Decryption(r), r < counterRequest>>, <<Forged(r), FALSE>>} :
             decryptionCallback(Oracle, r, in[1], in[2])
    /\ UNCHANGED frontend

NextTwoPolls ==
    \/ CreatePollLeanCall
    \/ VoteLeanCall
    \/ RequestFinalizationCall
    \/ CallbackLeanCall

SpecTwoPolls == Init /\ [][NextTwoPolls]_vars

\* The decryption oracle answers every request that was issued: it calls
\* back with the plaintexts of the handles the request named, signed by the
\* KMS.  Under weak fairness a request that stays unanswered is answered.
OracleDelivers(requestId) ==
    /\ requestId < counterRequest
    /\ decryptionCallback(Oracle, requestId, Decryption(requestId), TRUE)
    /\ UNCHANGED frontend

FairSpecTwoPolls ==
    SpecTwoPolls /\ \A r \in RequestIds : WF_vars(OracleDelivers(r))

\* ------------------------------------- useMultiChoiceVoting.requestFinalization
\* The frontend hook on the local mock chain, where no oracle answers: after
\* its requestFinalization transaction it reads the count handles, decrypts
\* them as the connected user, reads the request id and sends the callback
\* itself, with no signatures.  Each await is a step; other accounts'
\* transactions may be mined between any two of them.
HookAccount == "alice"
chainId == 31337

contract == <<now, pollCount, polls, hasVoted, requestToPoll,
              counterRequest, requested, acl, ballots, lastCall>>

\* writeContractAsync(requestFinalization) and the wait for its receipt.
HookRequestFinalization(pollId) ==
    /\ hook.pc \in {"idle", "returned", "threw"}
    /\ requestFinalization(HookAccount, pollId)
    /\ hook' = [HookIdle EXCEPT
                  !.pollId = pollId,
                  !.pc = IF RequestFinalizationError(pollId) # OK THEN "threw"
                         ELSE IF chainId = 31337 THEN "requested"
                         ELSE "returned"]
    /\ UNCHANGED provider

\* readContract(getEncryptedCounts): the handles, and with them who may
\* decrypt what they hold.
HookGetEncryptedCounts ==
    /\ hook.pc = "requested"
    /\ hook' = [hook EXCEPT !.pc = "read",
                            !.handles = getEncryptedCounts(hook.pollId).ret,
                            !.allowed = acl[hook.pollId]]
    /\ UNCHANGED <<contract, provider>>

\* fhevm.userDecrypt of the handles read: their plaintexts, for a user the
\* handles were allowed to.
HookUserDecrypt ==
    /\ hook.pc = "read"
    /\ hook' = IF HookAccount \in hook.allowed
               THEN [hook EXCEPT !.pc = "decrypted",
                                 !.decryptedCounts = hook.handles]
               ELSE [hook EXCEPT !.pc = "threw"]
    /\ UNCHANGED <<contract, provider>>

\* readContract(getRequestId).
HookGetRequestId ==
    /\ hook.pc = "decrypted"
    /\ hook' = [hook EXCEPT !.pc = "gotId",
                            !.requestId = polls[hook.pollId].requestId]
    /\ UNCHANGED <<contract, provider>>

\* writeContractAsync(decryptionCallback, [requestId, cleartexts, []]).
HookDecryptionCallback ==
    /\ hook.pc = "gotId"
    /\ decryptionCallback(HookAccount, hook.requestId, hook.decryptedCounts, FALSE)
    /\ hook' = [hook EXCEPT
                  !.pc = IF CallbackError(hook.requestId, hook.decryptedCounts) = OK
                         THEN "returned" ELSE "threw"]
    /\ UNCHANGED provider

HookRequestFinalizationCall == \E p \in PollIds : HookRequestFinalization(p)

\* One poll of two options, open to votes from creation on.
CreatePollMockCall ==
    /\ (pollCount + 1) \in PollIds
    /\ \E s \in Accounts : createPoll(s, "Q", Labels(MinOptions), 0, MaxTime)
    /\ UNCHANGED frontend

NextMockFinalization ==
    \/ CreatePollMockCall
    \/ VoteCall
    \/ HookRequestFinalizationCall
    \/ HookGetEncryptedCounts
    \/ HookUserDecrypt
    \/ HookGetRequestId
    \/ HookDecryptionCallback

SpecMockFinalization == Init /\ [][NextMockFinalization]_vars

\* ------------------------------------------------------------ FhevmProvider
\* How many initFhevm runs may wait for their SDK at once.
MaxPending == 2

RECURSIVE PendingIn(_)
PendingIn(envs) ==
    IF envs = {} THEN 0
    ELSE LET e == CHOOSE x \in envs : TRUE IN
         provider.pending[e] + PendingIn(envs \ {e})

\* The wallet changes, the component renders and the effect starts
\* initFhevm, which runs to its first await: it resets the state for no
\* wallet, reports a missing window.ethereum or an unsupported chain, or
\* goes on to load and create the SDK for the chain.
WalletChanges(wallet, hasEthereum) ==
    /\ wallet # provider.wallet
    /\ IF ~wallet.isConnected
       THEN provider' = [provider EXCEPT !.wallet = wallet,
                                         !.fhevm = NoInstance,
                                         !.isReady = FALSE,
                                         !.error = NoError]
       ELSE IF ~hasEthereum
       THEN provider' = [provider EXCEPT
                           !.wallet = wallet,
                           !.error = "MetaMask or Web3 wallet not detected",
                           !.isReady = FALSE]
       ELSE IF wallet.chain \in {31337, 11155111}
       THEN /\ PendingIn(InitEnvs) < MaxPending
            /\ provider' = [provider EXCEPT
                              !.wallet = wallet,
                              !.pending[[address |-> wallet.address,
                                         chain |-> wallet.chain]] = @ + 1]
       ELSE provider' = [provider EXCEPT !.wallet = wallet,
                                         !.error = "Unsupported network",
                                         !.fhevm = NoInstance,
                                         !.isReady = FALSE]
    /\ UNCHANGED <<contract, hook>>

\* An initFhevm run gets its SDK instance and sets the state, or the import
\* or the creation throws and the catch block sets it.
InitCompletes(env, created) ==
    /\ provider.pending[env] > 0
    /\ provider' = IF created
                   THEN [provider EXCEPT !.pending[env] = @ - 1,
                                         !.fhevm = env,
                                         !.isReady = TRUE,
                                         !.error = NoError]
                   ELSE [provider EXCEPT !.pending[env] = @ - 1,
                                         !.error = "Failed to initialize FHEVM",
                                         !.fhevm = NoInstance,
                                         !.isReady = FALSE]
    /\ UNCHANGED <<contract, hook>>

WalletChangesCall ==
    \E w \in Wallets, eth \in BOOLEAN : WalletChanges(w, eth)

InitCompletesCall ==
    \E e \in InitEnvs, created \in BOOLEAN : InitCompletes(e, created)

NextFhevmProvider ==
    \/ WalletChangesCall
    \/ InitCompletesCall

SpecFhevmProvider == Init /\ [][NextFhevmProvider]_vars

\* ===================================================================== claims
RECURSIVE Sum(_)
Sum(seq) == IF seq = <<>> THEN 0 ELSE Head(seq) + Sum(Tail(seq))

NumOptions(p) == Len(polls[p].options)
IsOpen(p) == ~polls[p].finalized /\ ~polls[p].decryptionPending
InWindow(p) == now >= polls[p].startTime /\ now <= polls[p].endTime
Voted(p) == {a \in Accounts : ballots[p][a] # NoBallot}
AllBallotsInRange(p) == \A a \in Voted(p) : ballots[p][a] < NumOptions(p)
VotesFor(p, i) == Cardinality({a \in Accounts : ballots[p][a] = i})
\* 0 = Open, 1 = DecryptionPending, 2 = Finalized
Rank(poll) == IF poll.finalized THEN 2 ELSE IF poll.decryptionPending THEN 1 ELSE 0

\* C1 (as amended): once hasVoted[p][s] is true, every further vote by s on p
\* reverts and changes no storage; the revert is "Already voted" whenever the
\* time is not past endTime and the poll is not finalized, and otherwise it is
\* the earlier check's "Voting has ended" or "Poll is finalized".
C1_SecondVoteRejected ==
    [][\A s \in Accounts, p \in PollIds :
          (/\ lastCall'.op = "vote"
           /\ hasVoted[p][s]
           /\ \E b \in BallotInputs : vote(s, p, b[1], b[2])) =>
             /\ lastCall'.err \in {"Voting has ended", "Poll is finalized",
                                   "Already voted"}
             /\ (now <= polls[p].endTime /\ ~polls[p].finalized)
                    => lastCall'.err = "Already voted"
             /\ UNCHANGED <<polls, hasVoted, acl, ballots>>]_vars

C1_Witness ==
    /\ lastCall.op = "vote"
    /\ lastCall.err = "Already voted"
    /\ \E p \in PollIds, s \in Accounts :
          /\ hasVoted[p][s] /\ polls[p].totalVoters = 1
          /\ InWindow(p) /\ ~polls[p].finalized

\* C1 (as stated): a second vote by the same voter on the same poll always
\* reverts with "Already voted" and changes no storage.
C1_SecondVoteAlwaysAlreadyVoted ==
    [][\A s \in Accounts, p \in PollIds :
          (/\ lastCall'.op = "vote"
           /\ hasVoted[p][s]
           /\ \E b \in BallotInputs : vote(s, p, b[1], b[2])) =>
             /\ lastCall'.err = "Already voted"
             /\ UNCHANGED <<polls, hasVoted, acl, ballots>>]_vars

\* C2: a vote with a valid proof, inside the window, on an existing Open poll
\* by a voter who has not voted is accepted, adds exactly 1 to totalVoters,
\* sets hasVoted for that voter and leaves every other hasVoted entry alone.
C2_FirstVoteAccepted ==
    [][\A s \in Accounts, p \in PollIds :
          (/\ lastCall'.op = "vote"
           /\ pollExists(p) /\ IsOpen(p) /\ InWindow(p)
           /\ ~hasVoted[p][s]
           /\ \E c \in Choices : vote(s, p, c, TRUE)) =>
             /\ lastCall'.err = OK
             /\ polls'[p].totalVoters = polls[p].totalVoters + 1
             /\ hasVoted'[p][s]
             /\ \A q \in PollIds, a \in Accounts :
                   (q # p \/ a # s) => hasVoted'[q][a] = hasVoted[q][a]]_vars

C2_Witness ==
    /\ lastCall.op = "vote"
    /\ lastCall.err = OK
    /\ \E p \in PollIds :
          /\ polls[p].totalVoters = 2
          /\ \A a \in Accounts : hasVoted[p][a]

\* C3: on a poll whose accepted ballots all encode an in-range option, the
\* plaintext of encryptedCounts[i] is the number of accepted ballots for i.
C3_CountsAreHistogram ==
    \A p \in PollIds :
        (pollExists(p) /\ AllBallotsInRange(p)) =>
            \A i \in 1 .. NumOptions(p) :
                polls[p].encryptedCounts[i] = VotesFor(p, i - 1)

C3_Witness ==
    \E p \in PollIds :
        /\ pollExists(p) /\ AllBallotsInRange(p)
        /\ NumOptions(p) = MaxOptions
        /\ polls[p].encryptedCounts[2] = 2
        /\ Sum(polls[p].encryptedCounts) = 2

\* C4 (as stated, for a callback that delivered the oracle's own answer): once
\* a poll is Finalized and every accepted ballot was in range, the sum of
\* decryptedCounts equals totalVoters.
C4_RevealedSumIsTotalVoters ==
    \A p \in PollIds :
        (/\ pollExists(p) /\ polls[p].finalized
         /\ AllBallotsInRange(p)
         /\ polls[p].decryptedCounts = Decryption(polls[p].requestId)) =>
            Sum(polls[p].decryptedCounts) = polls[p].totalVoters

\* C5 (as stated, short of the name of the error): inside the voting window,
\* a vote on a poll that is DecryptionPending or Finalized is rejected and
\* changes no count, hasVoted entry or totalVoters.
C5_VoteOnlyWhileOpen ==
    [][\A s \in Accounts, p \in PollIds :
          (/\ lastCall'.op = "vote"
           /\ pollExists(p) /\ ~IsOpen(p) /\ InWindow(p)
           /\ \E b \in BallotInputs : vote(s, p, b[1], b[2])) =>
             /\ lastCall'.err # OK
             /\ UNCHANGED <<polls, hasVoted>>]_vars

\* C6 (as stated): a callback whose signatures do not verify fails and leaves
\* every poll as it was.
C6_CallbackVerifiesSignatures ==
    [][\A s \in Callers, r \in RequestIds :
          (/\ lastCall'.op = "decryptionCallback"
           /\ \E in \in CallbackInputs(r) :
                 ~in[2] /\ decryptionCallback(s, r, in[1], in[2])) =>
             /\ lastCall'.err # OK
             /\ UNCHANGED polls]_vars

\* C7 (as stated): a callback sent by any account other than the decryption
\* oracle changes no poll.
C7_CallbackOnlyFromOracle ==
    [][\A s \in Callers \ {Oracle}, r \in RequestIds :
          (/\ lastCall'.op = "decryptionCallback"
           /\ \E in \in CallbackInputs(r) :
                 decryptionCallback(s, r, in[1], in[2])) =>
             UNCHANGED <<pollCount, polls, hasVoted, requestToPoll>>]_vars

\* C8: finalized and decryptionPending are never both set, and every step
\* leaves each poll's lifecycle where it was or moves it one state forward
\* (Open -> DecryptionPending -> Finalized); no callback succeeds for a poll
\* that is already Finalized.
C8_LifecycleForwardOnly ==
    /\ [](\A p \in PollIds : ~(polls[p].finalized /\ polls[p].decryptionPending))
    /\ [][\A p \in PollIds :
            /\ Rank(polls'[p]) \in {Rank(polls[p]), Rank(polls[p]) + 1}
            /\ (polls[p].finalized /\ lastCall'.op = "decryptionCallback"
                /\ lastCall'.err = OK)
                  => polls'[p] = polls[p]]_vars

C8_Witness ==
    /\ lastCall.op = "decryptionCallback"
    /\ lastCall.err = OK
    /\ \E p \in PollIds : pollExists(p) /\ Rank(polls[p]) = 2

\* C9 (as stated): requestFinalization before the voting period has ended
\* reverts with "Voting has not ended" and leaves the poll Open.
C9_NoFinalizationBeforeEnd ==
    [][\A s \in Accounts, p \in PollIds :
          (/\ lastCall'.op = "requestFinalization"
           /\ pollExists(p) /\ IsOpen(p) /\ ~(now > polls[p].endTime)
           /\ requestFinalization(s, p)) =>
             /\ lastCall'.err = "Voting has not ended"
             /\ IsOpen(p)']_vars

C11_NoSecondRequest ==
    [][\A p \in PollIds :
          (/\ lastCall'.op = "requestFinalization"
           /\ pollExists(p) /\ ~IsOpen(p)
           /\ \E s \in Accounts : requestFinalization(s, p)) =>
             /\ Rank(polls[p]) = 1 => lastCall'.err = "Decryption already pending"
             /\ Rank(polls[p]) = 2 => lastCall'.err = "Poll already finalized"
             /\ UNCHANGED <<counterRequest, requested, polls, requestToPoll,
                            pollCount, hasVoted>>]_vars

\* A second requestFinalization while the first request is unanswered.
C11_Witness ==
    /\ lastCall = Receipt("requestFinalization", "Decryption already pending")
    /\ counterRequest = 1
    /\ \E p \in PollIds : pollExists(p) /\ Rank(polls[p]) = 1

\* C12: a callback for the request id of a DecryptionPending poll with one
\* cleartext per option succeeds and, in that one step, stores the cleartexts
\* in order as decryptedCounts, sets finalized, clears decryptionPending and
\* changes no encrypted count, totalVoters or hasVoted entry.
C12_CallbackStoresResults ==
    [][\A r \in RequestIds :
          LET p == requestToPoll[r] IN
          (/\ lastCall'.op = "decryptionCallback"
           /\ pollExists(p)
           /\ polls[p].decryptionPending /\ polls[p].requestId = r) =>
             \A in \in CallbackInputs(r) :
                (/\ Len(in[1]) = NumOptions(p)
                 /\ \E s \in Callers : decryptionCallback(s, r, in[1], in[2])) =>
                   /\ lastCall'.err = OK
                   /\ polls' = [polls EXCEPT ![p].decryptedCounts = in[1],
                                             ![p].finalized = TRUE,
                                             ![p].decryptionPending = FALSE]
                   /\ Rank(polls'[p]) = 2
                   /\ polls'[p].encryptedCounts = polls[p].encryptedCounts
                   /\ polls'[p].totalVoters = polls[p].totalVoters
                   /\ UNCHANGED hasVoted]_vars

C12_Witness ==
    /\ lastCall = Receipt("decryptionCallback", OK)
    /\ \E p \in PollIds :
          /\ pollExists(p) /\ polls[p].finalized /\ ~polls[p].decryptionPending
          /\ polls[p].decryptedCounts = Decryption(polls[p].requestId)
          /\ polls[p].decryptedCounts[2] = 1
          /\ polls[p].totalVoters = 1

\* C13 (as amended): on a Finalized poll a repeated callback with the poll's
\* request id reverts, with the same "No pending decryption" that answers any
\* request that is not pending, and no step ever changes the decryptedCounts
\* of a Finalized poll.
C13_FinalizedResultsFrozen ==
    /\ [][\A r \in RequestIds :
            LET p == requestToPoll[r] IN
            (/\ lastCall'.op = "decryptionCallback"
             /\ pollExists(p) /\ polls[p].finalized /\ polls[p].requestId = r
             /\ \E s \in Callers, in \in CallbackInputs(r) :
                   decryptionCallback(s, r, in[1], in[2])) =>
               /\ lastCall'.err = "No pending decryption"
               /\ UNCHANGED polls]_vars
    /\ [][\A p \in PollIds :
            polls[p].finalized =>
               /\ polls'[p].finalized
               /\ polls'[p].decryptedCounts = polls[p].decryptedCounts]_vars

C13_Witness ==
    /\ lastCall = Receipt("decryptionCallback", "No pending decryption")
    /\ \E p \in PollIds :
          /\ pollExists(p) /\ polls[p].finalized
          /\ requestToPoll[polls[p].requestId] = p
          /\ Sum(polls[p].decryptedCounts) = 2

\* C13 (as stated): the repeated callback on a Finalized poll reverts with the
\* already-finalized error and leaves decryptedCounts alone.
C13_RepeatedCallbackAlreadyFinalized ==
    [][\A r \in RequestIds :
          LET p == requestToPoll[r] IN
          (/\ lastCall'.op = "decryptionCallback"
           /\ pollExists(p) /\ polls[p].finalized /\ polls[p].requestId = r
           /\ \E s \in Callers, in \in CallbackInputs(r) :
                 decryptionCallback(s, r, in[1], in[2])) =>
             /\ lastCall'.err \in {"Poll already finalized", "Poll is finalized"}
             /\ UNCHANGED polls]_vars

\* C14: a callback whose request id does not lead to a poll that is
\* DecryptionPending under that very id reverts with "Invalid request ID" (no
\* such poll) or "No pending decryption" and changes nothing; a request id
\* that was never issued leads to poll 0, in whatever state poll 0 is.
C14_UnknownRequestRejected ==
    [][\A r \in RequestIds :
          LET p == requestToPoll[r] IN
          (/\ lastCall'.op = "decryptionCallback"
           /\ \/ ~(r < counterRequest)
              \/ ~pollExists(p)
              \/ Rank(polls[p]) # 1
           /\ \E s \in Callers, in \in CallbackInputs(r) :
                 decryptionCallback(s, r, in[1], in[2])) =>
             /\ lastCall'.err =
                   IF pollExists(p) THEN "No pending decryption"
                                    ELSE "Invalid request ID"
             /\ UNCHANGED <<pollCount, polls, hasVoted, requestToPoll,
                            counterRequest, requested>>]_vars

\* A request id that was never issued, sent while poll 0 awaits its own.
C14_Witness ==
    /\ lastCall = Receipt("decryptionCallback", "No pending decryption")
    /\ pollExists(0) /\ Rank(polls[0]) = 1
    /\ \E r \in RequestIds : ~(r < counterRequest) /\ requestToPoll[r] = 0

\* C15: a callback for a pending request whose cleartexts are not one per
\* option reverts with "Result length mismatch"; the poll stays
\* DecryptionPending under the same request id and decryptedCounts is as before.
C15_LengthMismatchRejected ==
    [][\A r \in RequestIds :
          LET p == requestToPoll[r] IN
          (/\ lastCall'.op = "decryptionCallback"
           /\ pollExists(p)
           /\ polls[p].decryptionPending /\ polls[p].requestId = r) =>
             \A in \in CallbackInputs(r) :
                (/\ Len(in[1]) # NumOptions(p)
                 /\ \E s \in Callers : decryptionCallback(s, r, in[1], in[2])) =>
                   /\ lastCall'.err = "Result length mismatch"
                   /\ Rank(polls'[p]) = 1
                   /\ polls'[p].requestId = r
                   /\ polls'[p].decryptedCounts = polls[p].decryptedCounts
                   /\ UNCHANGED polls]_vars

C15_Witness ==
    /\ lastCall = Receipt("decryptionCallback", "Result length mismatch")
    /\ \E p \in PollIds :
          /\ pollExists(p) /\ Rank(polls[p]) = 1
          /\ polls[p].decryptedCounts = Zeros(NumOptions(p))
          /\ polls[p].totalVoters = 2

\* C16: when every accepted ballot encodes an in-range option and was cast
\* before the request, and the callback delivered the oracle's own answer,
\* decryptedCounts[i] is the number of voters who chose option i: a function
\* of who chose what, the same for every order in which the ballots came.
C16_OrderIndependentResults ==
    \A p \in PollIds :
        (/\ pollExists(p) /\ polls[p].finalized
         /\ AllBallotsInRange(p)
         /\ requested[polls[p].requestId] = polls[p].encryptedCounts
         /\ polls[p].decryptedCounts = Decryption(polls[p].requestId)) =>
            \A i \in 1 .. NumOptions(p) :
                polls[p].decryptedCounts[i] = VotesFor(p, i - 1)

\* Both voters voted, for different options, before an honest finalization.
C16_Witness ==
    \E p \in PollIds :
        /\ pollExists(p) /\ polls[p].finalized
        /\ AllBallotsInRange(p)
        /\ Voted(p) = Accounts
        /\ \E a, b \in Accounts : ballots[p][a] # ballots[p][b]
        /\ requested[polls[p].requestId] = polls[p].encryptedCounts
        /\ polls[p].decryptedCounts = Decryption(polls[p].requestId)

\* C17: getResults reverts with "Poll not finalized" on every existing poll
\* that is Open or DecryptionPending, and on a Finalized poll returns the
\* stored decryptedCounts, one entry per option.
C17_ResultsOnlyWhenFinalized ==
    \A p \in PollIds :
        pollExists(p) =>
            /\ Rank(polls[p]) < 2 =>
                  getResults(p) = [err |-> "Poll not finalized", ret |-> <<>>]
            /\ Rank(polls[p]) = 2 =>
                  /\ getResults(p).err = OK
                  /\ getResults(p).ret = polls[p].decryptedCounts
                  /\ Len(getResults(p).ret) = NumOptions(p)

C17_Witness ==
    \E p \in PollIds :
        /\ pollExists(p) /\ Rank(polls[p]) = 2
        /\ getResults(p).err = OK
        /\ getResults(p).ret[1] = 1
        /\ Len(getResults(p).ret) = MinOptions

\* C18 (as stated): while a poll is not Finalized no account holds permission
\* to decrypt its counts.
C18_CountsSealedUntilFinalized ==
    \A p \in PollIds :
        (pollExists(p) /\ ~polls[p].finalized) => acl[p] = {}

\* ------------------------------------------------------------ plaintext view
\* What is readable in plaintext: everything but the values the count
\* handles encrypt.  PlainVote, PlainRequestFinalization, PlainCreatePoll and
\* PlainTick are the transactions as they act on that view alone; none of
\* them is given the option a ballot encodes.
Sealed(poll) == [poll EXCEPT !.encryptedCounts = Zeros(Len(@))]

Plain ==
    [now |-> now, pollCount |-> pollCount,
     polls |-> [p \in PollIds |-> Sealed(polls[p])],
     hasVoted |-> hasVoted, requestToPoll |-> requestToPoll,
     counterRequest |-> counterRequest, lastCall |-> lastCall]

PlainVoteError(O, pollId, sender, proofOk) ==
    IF ~(pollId < O.pollCount) THEN "Poll does not exist"
    ELSE IF ~(O.now >= O.polls[pollId].startTime) THEN "Voting has not started"
    ELSE IF ~(O.now <= O.polls[pollId].endTime) THEN "Voting has ended"
    ELSE IF O.polls[pollId].finalized THEN "Poll is finalized"
    ELSE IF O.hasVoted[pollId][sender] THEN "Already voted"
    ELSE IF ~proofOk THEN "Invalid proof"
    ELSE OK

PlainVote(O, sender, pollId, proofOk) ==
    LET err == PlainVoteError(O, pollId, sender, proofOk) IN
    IF err = OK
    THEN [O EXCEPT !.lastCall = Receipt("vote", err),
                   !.polls[pollId].totalVoters = @ + 1,
                   !.hasVoted[pollId][sender] = TRUE]
    ELSE [O EXCEPT !.lastCall = Receipt("vote", err)]

PlainRequestFinalizationError(O, pollId) ==
    IF ~(pollId < O.pollCount) THEN "Poll does not exist"
    ELSE IF O.polls[pollId].finalized THEN "Poll already finalized"
    ELSE IF O.polls[pollId].decryptionPending THEN "Decryption already pending"
    ELSE OK

PlainRequestFinalization(O, pollId) ==
    LET err == PlainRequestFinalizationError(O, pollId)
        requestId == O.counterRequest IN
    IF err = OK
    THEN [O EXCEPT !.lastCall = Receipt("requestFinalization", err),
                   !.polls[pollId].decryptionPending = TRUE,
                   !.polls[pollId].requestId = requestId,
                   !.requestToPoll[requestId] = pollId,
                   !.counterRequest = @ + 1]
    ELSE [O EXCEPT !.lastCall = Receipt("requestFinalization", err)]

PlainCreatePollError(O, title, options, startTime, endTime) ==
    IF title = "" THEN "Title cannot be empty"
    ELSE IF ~(Len(options) >= MinOptions /\ Len(options) <= MaxOptions)
        THEN "Must have 2-16 options"
    ELSE IF ~(endTime > startTime) THEN "End time must be after start time"
    ELSE IF ~(endTime > O.now) THEN "End time must be in the future"
    ELSE OK

PlainCreatePoll(O, sender, title, options, startTime, endTime) ==
    LET err == PlainCreatePollError(O, title, options, startTime, endTime) IN
    IF err = OK
    THEN [O EXCEPT !.lastCall = Receipt("createPoll", err),
                   !.pollCount = @ + 1,
                   !.polls[O.pollCount] =
                       NewPoll(title, options, startTime, endTime, sender)]
    ELSE [O EXCEPT !.lastCall = Receipt("createPoll", err)]

PlainTick(O) == [O EXCEPT !.now = @ + 1]

\* C19: every createPoll, vote, requestFinalization and passing of time takes
\* the plaintext view (hasVoted, totalVoters, finalized, decryptionPending,
\* requestId, decryptedCounts, the outcome of the call, ...) to the view that
\* the callers, arguments other than the encoded option, and the view before
\* determine; so two runs that differ only in the options their ballots encode
\* show the same plaintext at every step up to the decryption callback.
C19_PlaintextIgnoresChoices ==
    [][LET before == Plain
           after == Plain' IN
       /\ (lastCall'.op = "vote" /\ now' = now) =>
             \A s \in Accounts, p \in PollIds, ok \in BOOLEAN :
                (\E b \in BallotInputs : b[2] = ok /\ vote(s, p, b[1], ok)) =>
                   after = PlainVote(before, s, p, ok)
       /\ (lastCall'.op = "requestFinalization" /\ now' = now) =>
             \A s \in Accounts, p \in PollIds :
                requestFinalization(s, p) =>
                   after = PlainRequestFinalization(before, p)
       /\ (lastCall'.op = "createPoll" /\ now' = now) =>
             \A s \in Accounts, t \in Titles, o \in OptionInputs,
                st \in Times, en \in Times :
                createPoll(s, t, o, st, en) =>
                   after = PlainCreatePoll(before, s, t, o, st, en)
       /\ Tick => after = PlainTick(before)]_vars

\* Two accepted ballots for different options, one of them for no option of
\* the poll, before any request.
C19_Witness ==
    /\ lastCall = Receipt("vote", OK)
    /\ \E p \in PollIds :
          /\ pollExists(p) /\ IsOpen(p)
          /\ polls[p].totalVoters = 2
          /\ \E a, b \in Accounts :
                ballots[p][a] = 0 /\ ballots[p][b] >= NumOptions(p)

C23_VotingWindow ==
    [][\A s \in Accounts, p \in PollIds :
          (/\ lastCall'.op = "vote"
           /\ pollExists(p)
           /\ \E b \in BallotInputs : vote(s, p, b[1], b[2])) =>
             /\ now < polls[p].startTime =>
                   /\ lastCall'.err = "Voting has not started"
                   /\ UNCHANGED <<store, acl, ballots>>
             /\ now > polls[p].endTime =>
                   /\ lastCall'.err = "Voting has ended"
                   /\ UNCHANGED <<store, acl, ballots>>
             /\ (now >= polls[p].startTime /\ now <= polls[p].endTime) =>
                   lastCall'.err \notin {"Voting has not started",
                                         "Voting has ended"}]_vars

C23_Witness ==
    /\ lastCall = Receipt("vote", "Voting has ended")
    /\ \E p \in PollIds :
          /\ pollExists(p) /\ now > polls[p].endTime
          /\ polls[p].totalVoters = 0

\* C24: a vote whose input proof does not verify is never accepted and
\* changes nothing; when the poll exists, is in its window and not finalized
\* and the voter has not voted, the revert is "Invalid proof", and the same
\* voter's vote with a valid proof would be accepted right after.
C24_InvalidProofRejected ==
    [][\A s \in Accounts, p \in PollIds :
          (/\ lastCall'.op = "vote"
           /\ \E b \in BallotInputs : ~b[2] /\ vote(s, p, b[1], b[2])) =>
             /\ lastCall'.err # OK
             /\ UNCHANGED <<store, acl, ballots>>
             /\ (/\ pollExists(p) /\ InWindow(p)
                 /\ ~polls[p].finalized /\ ~hasVoted[p][s]) =>
                   /\ lastCall'.err = "Invalid proof"
                   /\ VoteError(p, s, TRUE)' = OK]_vars

C24_Witness ==
    /\ lastCall = Receipt("vote", "Invalid proof")
    /\ \E p \in PollIds, s \in Accounts :
          /\ pollExists(p) /\ ~hasVoted[p][s]
          /\ VoteError(p, s, TRUE) = OK
          /\ polls[p].totalVoters = 1

\* C25: a ballot with a valid proof that encodes no option of the poll is
\* accepted like any other: no count changes, hasVoted becomes true for the
\* voter and totalVoters grows by 1.
C25_OutOfRangeBallotCounted ==
    [][\A s \in Accounts, p \in PollIds :
          (/\ lastCall'.op = "vote"
           /\ pollExists(p) /\ InWindow(p)
           /\ ~polls[p].finalized /\ ~hasVoted[p][s]) =>
             \A c \in Choices :
                (c >= NumOptions(p) /\ vote(s, p, c, TRUE)) =>
                   /\ lastCall'.err = OK
                   /\ polls'[p].encryptedCounts = polls[p].encryptedCounts
                   /\ hasVoted'[p][s]
                   /\ polls'[p].totalVoters = polls[p].totalVoters + 1]_vars

C25_Witness ==
    /\ lastCall = Receipt("vote", OK)
    /\ \E p \in PollIds, s \in Accounts :
          /\ pollExists(p)
          /\ ballots[p][s] >= NumOptions(p)
          /\ hasVoted[p][s] /\ polls[p].totalVoters = 1
          /\ polls[p].encryptedCounts = Zeros(NumOptions(p))

\* C26: hasVoted[p][a] is false for every poll that does not exist yet, so for
\* every voter when a poll is created; it becomes true only in the step in
\* which a's vote on p is accepted; and no step sets it back to false.
C26_HasVotedWriteOnce ==
    /\ [](\A p \in PollIds, a \in Accounts : ~pollExists(p) => ~hasVoted[p][a])
    /\ [][\A p \in PollIds, a \in Accounts :
            /\ hasVoted[p][a] => hasVoted'[p][a]
            /\ (~hasVoted[p][a] /\ hasVoted'[p][a]) =>
                  /\ lastCall' = Receipt("vote", OK)
                  /\ \E c \in Choices : vote(a, p, c, TRUE)]_vars

C26_Witness ==
    \E p \in PollIds, a, b \in Accounts :
        /\ pollExists(p) /\ polls[p].finalized
        /\ hasVoted[p][a] /\ ~hasVoted[p][b]
        /\ now > polls[p].endTime

\* C27: a vote is one atomic step, so however the votes that one voter sends
\* to a poll are ordered, at most one is accepted: totalVoters is the number
\* of voters marked in hasVoted, each of them has exactly one ballot in the
\* counts, and a step changes totalVoters by at most 1.
C27_OneBallotPerVoter ==
    /\ [](\A p \in PollIds :
             /\ polls[p].totalVoters = Cardinality({a \in Accounts : hasVoted[p][a]})
             /\ Voted(p) = {a \in Accounts : hasVoted[p][a]}
             /\ pollExists(p) =>
                   Sum(polls[p].encryptedCounts) =
                      Cardinality({a \in Voted(p) : ballots[p][a] < NumOptions(p)}))
    /\ [][\A p \in PollIds :
             polls'[p].totalVoters \in
                {polls[p].totalVoters, polls[p].totalVoters + 1}]_vars

\* Both voters have voted and a further vote has just been turned away.
C27_Witness ==
    /\ lastCall = Receipt("vote", "Already voted")
    /\ \E p \in PollIds :
          /\ pollExists(p) /\ polls[p].totalVoters = 2
          /\ Sum(polls[p].encryptedCounts) = 2

\* C28: a createPoll, vote, requestFinalization or decryptionCallback that
\* reverts leaves pollCount, every poll, hasVoted and _requestToPoll as they
\* were, and files nothing with the oracle.
C28_RevertChangesNothing ==
    [][lastCall'.err # OK =>
          UNCHANGED <<store, counterRequest, requested, acl>>]_vars

\* A reverted callback on a poll that holds votes and awaits its decryption.
C28_Witness ==
    /\ lastCall.op = "decryptionCallback"
    /\ lastCall.err # OK
    /\ \E p \in PollIds :
          /\ pollExists(p) /\ Rank(polls[p]) = 1
          /\ polls[p].totalVoters = 1
          /\ requestToPoll[polls[p].requestId] = p

\* C21: poll ids are handed out in order from 0 and never reused.  The poll
\* count starts at 0 and a step changes it only by a successful createPoll,
\* which adds one to it: getPollCount is the number of successful createPoll
\* calls, and the k-th of them writes the poll with id k - 1 (the id it
\* returns) and touches no other poll.  The new poll is Open, all its
\* accumulators are zero, its totalVoters is 0 and no voter is marked for it.
C21_PollIdsSequential ==
    /\ [](\A p \in PollIds : ~pollExists(p) =>
            /\ polls[p] = EmptyPoll
            /\ \A a \in Accounts : ~hasVoted[p][a])
    /\ [][LET id == getPollCount IN
          IF lastCall' = Receipt("createPoll", OK)
          THEN /\ id \in PollIds
               /\ getPollCount' = id + 1
               /\ \A p \in PollIds \ {id} : polls'[p] = polls[p]
               /\ ~polls'[id].finalized /\ ~polls'[id].decryptionPending
               /\ Len(polls'[id].options) >= MinOptions
               /\ polls'[id].encryptedCounts = Zeros(Len(polls'[id].options))
               /\ polls'[id].totalVoters = 0
               /\ \A a \in Accounts : ~hasVoted'[id][a]
          ELSE getPollCount' = id]_vars

C21_Witness ==
    /\ lastCall = Receipt("createPoll", OK)
    /\ getPollCount = 2
    /\ polls[0].totalVoters = 1
    /\ polls[0].decryptionPending
    /\ IsOpen(1) /\ polls[1].encryptedCounts = Zeros(MinOptions)

\* C22: a createPoll call with a non-empty title, 2 to 16 options, an end time
\* after the start time and in the future succeeds, and getPollInfo on the
\* new id then returns that title, option list, start time, end time, the
\* caller as creator and finalized = false.  No later step (vote,
\* requestFinalization, decryption callback, createPoll) changes the title,
\* options, startTime, endTime or creator that getPollInfo returns for a poll.
C22_PollInfoEchoesAndStays ==
    [][/\ lastCall'.op = "createPoll" =>
          \A s \in Accounts, t \in Titles, o \in OptionInputs, st \in Times, en \in Times :
            (/\ t # "" /\ Len(o) >= 2 /\ Len(o) <= 16 /\ en > st /\ en > now
             /\ createPoll(s, t, o, st, en)) =>
               \A id \in {getPollCount} :
               LET info == getPollInfo(id)' IN
               /\ lastCall'.err = OK
               /\ info.err = OK
               /\ info.ret.title = t /\ info.ret.options = o
               /\ info.ret.startTime = st /\ info.ret.endTime = en
               /\ info.ret.creator = s /\ info.ret.finalized = FALSE
       /\ \A p \in PollIds : pollExists(p) =>
            LET before == getPollInfo(p)
                after == getPollInfo(p)' IN
            /\ after.err = OK
            /\ after.ret.title = before.ret.title
            /\ after.ret.options = before.ret.options
            /\ after.ret.startTime = before.ret.startTime
            /\ after.ret.endTime = before.ret.endTime
            /\ after.ret.creator = before.ret.creator]_vars

C22_Witness ==
    /\ lastCall = Receipt("decryptionCallback", OK)
    /\ getPollCount = 2
    /\ getPollInfo(0).ret.creator = "bob"
    /\ Len(getPollInfo(0).ret.options) = MaxOptions
    /\ getPollInfo(0).ret.finalized
    /\ getPollInfo(1).ret.creator = "alice"
    /\ Len(getPollInfo(1).ret.options) = MinOptions
    /\ getPollInfo(1).ret.totalVoters = 1
    /\ getPollInfo(1).ret.decryptionPending

\* C29: polls are independent and their decryptions may be in flight at the
\* same time.  Every pending poll holds a request id of its own that was
\* issued and maps back to it, and the oracle's answer to it is accepted
\* whatever the state of the other polls, so callbacks may arrive in any
\* order.  A successful callback finalizes exactly the poll that issued its
\* requestId, with the cleartexts of that callback.  A vote, a
\* requestFinalization or a callback on one poll leaves the accumulators,
\* revealed counts, totalVoters, lifecycle and hasVoted entries of every
\* other poll as they were.
C29_PollsIndependent ==
    /\ [](\A p \in PollIds : pollExists(p) /\ polls[p].decryptionPending =>
            LET r == polls[p].requestId IN
            /\ r < counterRequest
            /\ requestToPoll[r] = p
            /\ CallbackError(r, Decryption(r)) = OK
            /\ \A q \in PollIds \ {p} :
                  pollExists(q) /\ polls[q].decryptionPending => polls[q].requestId # r)
    /\ [][/\ \A q \in PollIds :
               (\/ /\ lastCall'.op = "vote"
                   /\ \E s \in Accounts, b \in BallotInputs : vote(s, q, b[1], b[2])
                \/ /\ lastCall'.op = "requestFinalization"
                   /\ \E s \in Callers : requestFinalization(s, q)) =>
                 \A p \in PollIds \ {q} :
                    polls'[p] = polls[p] /\ hasVoted'[p] = hasVoted[p]
          /\ lastCall' = Receipt("decryptionCallback", OK) =>
               \A r \in RequestIds : \A in \in CallbackInputs(r) :
                  decryptionCallback(Oracle, r, in[1], in[2]) =>
                    \E q \in PollIds :
                       /\ pollExists(q)
                       /\ polls[q].decryptionPending /\ polls[q].requestId = r
                       /\ polls'[q] = [polls[q] EXCEPT !.finalized = TRUE,
                                                        !.decryptionPending = FALSE,
                                                        !.decryptedCounts = in[1]]
                       /\ hasVoted' = hasVoted
                       /\ \A p \in PollIds \ {q} : polls'[p] = polls[p]]_vars

C29_Witness ==
    /\ lastCall = Receipt("decryptionCallback", OK)
    /\ polls[0].decryptionPending /\ polls[0].requestId = 0
    /\ polls[0].totalVoters = 0
    /\ polls[1].finalized /\ polls[1].requestId = 1
    /\ polls[1].totalVoters = 1 /\ polls[1].decryptedCounts = <<0, 1>>

\* C30: when the decryption oracle is fair, every poll that becomes
\* DecryptionPending is eventually Finalized.  Nothing but a successful
\* callback with the poll's request id and one cleartext per option takes a
\* poll out of DecryptionPending: in every other step the poll stays pending
\* under the same request id and is not finalized, and a requestFinalization
\* on it fails, so without that callback it is pending forever.
C30_PendingUntilCallback ==
    /\ \A p \in PollIds :
          (pollExists(p) /\ polls[p].decryptionPending) ~> polls[p].finalized
    /\ [][\A p \in PollIds : pollExists(p) /\ polls[p].decryptionPending =>
            /\ (lastCall'.op = "requestFinalization"
                  /\ \E s \in Callers : requestFinalization(s, p)) =>
                 lastCall'.err = "Decryption already pending"
            /\ \/ /\ lastCall' = Receipt("decryptionCallback", OK)
                  /\ \E in \in CallbackInputs(polls[p].requestId) :
                        /\ Len(in[1]) = NumOptions(p)
                        /\ decryptionCallback(Oracle, polls[p].requestId, in[1], in[2])
                  /\ polls'[p].finalized
               \/ /\ polls'[p].decryptionPending
                  /\ ~polls'[p].finalized
                  /\ polls'[p].requestId = polls[p].requestId]_vars

C30_Witness ==
    /\ lastCall = Receipt("decryptionCallback", OK)
    /\ polls[0].finalized /\ polls[0].requestId = 1
    /\ polls[0].decryptedCounts = requested[1]
    /\ polls[1].decryptionPending /\ polls[1].requestId = 0

\* C31: vote, requestFinalization, getPollInfo, getResults,
\* getEncryptedCounts, hasUserVoted and getTotalVoters fail with "Poll does
\* not exist" exactly when pollId >= getPollCount.  For a poll that exists
\* hasUserVoted, getTotalVoters and getPollInfo do not fail at all.  (The
\* views are operators on the state: they have no next state to write.)
C31_NotFoundIffUnknownPoll ==
    /\ [](\A p \in PollIds :
            LET unknown == p >= getPollCount
                NotFound == "Poll does not exist" IN
            /\ \A s \in Accounts, ok \in BOOLEAN :
                  (VoteError(p, s, ok) = NotFound) <=> unknown
            /\ (RequestFinalizationError(p) = NotFound) <=> unknown
            /\ (getPollInfo(p).err = NotFound) <=> unknown
            /\ (getResults(p).err = NotFound) <=> unknown
            /\ (getEncryptedCounts(p).err = NotFound) <=> unknown
            /\ (getTotalVoters(p).err = NotFound) <=> unknown
            /\ \A u \in Accounts : (hasUserVoted(p, u).err = NotFound) <=> unknown
            /\ ~unknown =>
                  /\ getPollInfo(p).err = OK
                  /\ getTotalVoters(p).err = OK
                  /\ \A u \in Accounts : hasUserVoted(p, u).err = OK)
    /\ [][\A p \in PollIds :
            /\ (lastCall'.op = "vote"
                  /\ \E s \in Accounts, b \in BallotInputs : vote(s, p, b[1], b[2])) =>
                 ((lastCall'.err = "Poll does not exist") <=> p >= getPollCount)
            /\ (lastCall'.op = "requestFinalization"
                  /\ \E s \in Accounts : requestFinalization(s, p)) =>
                 ((lastCall'.err = "Poll does not exist") <=> p >= getPollCount)]_vars

C31_Witness ==
    /\ lastCall = Receipt("requestFinalization", "Poll does not exist")
    /\ getPollCount = 1
    /\ hasUserVoted(0, "alice") = [err |-> OK, ret |-> TRUE]
    /\ getTotalVoters(0) = [err |-> OK, ret |-> 1]
    /\ hasUserVoted(1, "alice").err = "Poll does not exist"
    /\ getTotalVoters(1).err = "Poll does not exist"

\* C32: the accumulators of an existing poll change only in a step that
\* accepts a vote on that poll: a createPoll, a requestFinalization, a
\* decryption callback and every failed call leave the accumulators of every
\* existing poll as they were.  The revealed counts of an existing poll change
\* only in a successful decryption callback for the poll's request.
C32_CountsWrittenByVoteAndCallback ==
    [][\A p \in PollIds : pollExists(p) =>
         /\ polls'[p].encryptedCounts # polls[p].encryptedCounts =>
               /\ lastCall' = Receipt("vote", OK)
               /\ \E s \in Accounts, c \in Choices : vote(s, p, c, TRUE)
         /\ (\/ lastCall'.op \in {"createPoll", "requestFinalization",
                                  "decryptionCallback"}
             \/ lastCall'.err # OK) =>
               polls'[p].encryptedCounts = polls[p].encryptedCounts
         /\ polls'[p].decryptedCounts # polls[p].decryptedCounts =>
               /\ lastCall' = Receipt("decryptionCallback", OK)
               /\ \E in \in CallbackInputs(polls[p].requestId) :
                     decryptionCallback(Oracle, polls[p].requestId, in[1], in[2])]_vars

C32_Witness ==
    /\ lastCall = Receipt("decryptionCallback", OK)
    /\ polls[0].finalized
    /\ polls[0].encryptedCounts = <<0, 1>>
    /\ polls[0].decryptedCounts = <<1, 1>>
    /\ pollExists(1) /\ IsOpen(1)
    /\ polls[1].encryptedCounts = <<0, 1>>
    /\ polls[1].decryptedCounts = <<0, 0>>

\* C33: in every reachable state every poll has as many accumulators as
\* options and as many stored revealed counts, and getEncryptedCounts returns
\* one handle per option whether the poll is Open, DecryptionPending or
\* Finalized.
C33_OneCountPerOption ==
    \A p \in PollIds : pollExists(p) =>
       /\ Len(polls[p].encryptedCounts) = Len(polls[p].options)
       /\ Len(polls[p].decryptedCounts) = Len(polls[p].options)
       /\ getEncryptedCounts(p).err = OK
       /\ Len(getEncryptedCounts(p).ret) = Len(polls[p].options)
       /\ DOMAIN getEncryptedCounts(p).ret = DOMAIN polls[p].options

C33_Witness ==
    /\ lastCall = Receipt("decryptionCallback", OK)
    /\ polls[0].finalized
    /\ polls[0].totalVoters = 2
    /\ Len(polls[0].options) = MaxOptions
    /\ Len(getEncryptedCounts(0).ret) = MaxOptions
    /\ Len(polls[0].decryptedCounts) = MaxOptions

\* C34: in every reachable state getTotalVoters of a poll is the number of
\* voters for whom hasUserVoted is true, which is the number of votes that
\* were accepted on the poll.  totalVoters never decreases: a step that
\* accepts a vote on the poll adds exactly one, and no other step changes it.
C34_TotalVotersCountsAcceptedVotes ==
    /\ [](\A p \in PollIds : pollExists(p) =>
            /\ getTotalVoters(p).ret =
                  Cardinality({v \in Accounts : hasUserVoted(p, v).ret})
            /\ getTotalVoters(p).ret = Cardinality(Voted(p)))
    /\ [][\A p \in PollIds : pollExists(p) =>
            LET accepted == /\ lastCall' = Receipt("vote", OK)
                            /\ \E s \in Accounts, c \in Choices : vote(s, p, c, TRUE) IN
            /\ polls'[p].totalVoters >= polls[p].totalVoters
            /\ IF accepted
               THEN polls'[p].totalVoters = polls[p].totalVoters + 1
               ELSE polls'[p].totalVoters = polls[p].totalVoters]_vars

C34_Witness ==
    /\ lastCall = Receipt("vote", OK)
    /\ getTotalVoters(0) = [err |-> OK, ret |-> 2]
    /\ \A v \in Accounts : hasUserVoted(0, v).ret
    /\ ballots[0]["alice"] = 0 /\ ballots[0]["bob"] >= NumOptions(0)
    /\ IsOpen(0)

\* C35: in every reachable state the accumulators of a poll sum to at most
\* its totalVoters; the difference is the number of accepted ballots whose
\* option index was out of range, so the two are equal exactly when every
\* accepted ballot was in range.
C35_CountsSumBelowTotalVoters ==
    \A p \in PollIds : pollExists(p) =>
       LET total == Sum(polls[p].encryptedCounts)
           outOfRange == {a \in Voted(p) : ballots[p][a] >= NumOptions(p)} IN
       /\ total <= polls[p].totalVoters
       /\ polls[p].totalVoters - total = Cardinality(outOfRange)
       /\ (total = polls[p].totalVoters) <=> AllBallotsInRange(p)

C35_Witness ==
    \E p \in PollIds :
       /\ pollExists(p)
       /\ polls[p].totalVoters = 2
       /\ Sum(polls[p].encryptedCounts) = 1
       /\ ~AllBallotsInRange(p)
       /\ ballots[p]["alice"] = MaxChoice /\ ballots[p]["bob"] = 1

\* C36: a vote that violates several preconditions at once fails with the
\* first violated one in the order: poll does not exist, voting has not
\* started, voting has ended, poll is finalized, already voted, invalid proof;
\* a vote that violates none is accepted.  So a voter who has voted and tries
\* again after endTime gets "Voting has ended", and a voter who has voted and
\* tries again inside the window on a finalized poll gets "Poll is finalized".
C36_FirstViolatedPrecondition ==
    /\ [](\A s \in Accounts, p \in PollIds, ok \in BOOLEAN :
            LET order == <<"Poll does not exist", "Voting has not started",
                           "Voting has ended", "Poll is finalized",
                           "Already voted", "Invalid proof">>
                violated == <<p >= getPollCount,
                              now < polls[p].startTime,
                              now > polls[p].endTime,
                              polls[p].finalized,
                              hasVoted[p][s],
                              ~ok>>
                hits == {k \in 1 .. 6 : violated[k]}
                first == CHOOSE k \in hits : \A j \in hits : k <= j
                err == VoteError(p, s, ok) IN
            /\ err = IF hits = {} THEN OK ELSE order[first]
            /\ (hasVoted[p][s] /\ pollExists(p) /\ now > polls[p].endTime) =>
                  err = "Voting has ended"
            /\ (hasVoted[p][s] /\ pollExists(p) /\ InWindow(p)
                               /\ polls[p].finalized) =>
                  err = "Poll is finalized")
    /\ [][(lastCall'.op = "vote" /\ ~Tick) =>
           \E s \in Accounts, p \in PollIds, b \in BallotInputs :
              /\ lastCall'.err = VoteError(p, s, b[2])
              /\ vote(s, p, b[1], b[2])]_vars

C36_Witness ==
    /\ lastCall = Receipt("vote", "Voting has ended")
    /\ pollExists(0) /\ now > polls[0].endTime
    /\ \A a \in Accounts : hasVoted[0][a]
    /\ polls[0].finalized

\* C37 (as stated): on the mock chain, whenever the hook's
\* requestFinalization returns, its poll is Finalized and the revealed counts
\* are the plaintexts of the poll's accumulators at the moment the callback
\* is committed, whatever other accounts' votes were mined between the
\* hook's steps.
C37_HookRevealsCurrentCounts ==
    [][(hook.pc = "gotId" /\ hook'.pc = "returned") =>
         /\ polls'[hook.pollId].finalized
         /\ polls'[hook.pollId].decryptedCounts =
               polls'[hook.pollId].encryptedCounts]_vars

\* C38 (as stated): whenever the provider's isReady is true, its fhevm
\* instance is set, its error is null, and the instance was created for the
\* chain and the account the wallet is connected to now, whatever wallet
\* changes and completions of earlier initFhevm runs came before.
C38_ReadyForCurrentWallet ==
    provider.isReady =>
       /\ provider.fhevm # NoInstance
       /\ provider.error = NoError
       /\ provider.wallet.isConnected
       /\ provider.fhevm.chain = provider.wallet.chain
       /\ provider.fhevm.address = provider.wallet.address
====
